---- MODULE Spec2Model ----
(***************************************************************************)
(* A model of gget's search() (src/gget/gget_search.py): argument checks,  *)
(* species normalisation, resolution of the species to one Ensembl         *)
(* database, the connection with its alternate-port fallback, the          *)
(* per-keyword queries folded under and/or, and the final consolidation    *)
(* (drop_duplicates, head(limit), url column).                             *)
(*                                                                         *)
(* Python strings are TLA+ strings; Len, SubSeq and \o act on them.        *)
(***************************************************************************)
EXTENDS Integers, Sequences, FiniteSets, TLC

(***************************************************************************)
(* Bounds of the model.                                                    *)
(***************************************************************************)
MaxWords == 2
MaxLimit == 2

(***************************************************************************)
(* Python values that are not strings.                                     *)
(***************************************************************************)
None == "<None>"
NULL == "<NULL>"

(***************************************************************************)
(* str operations.                                                         *)
(***************************************************************************)
CharAt(s, k) == SubSeq(s, k, k)

UpperCase == "ABCDEFGHIJKLMNOPQRSTUVWXYZ"
LowerCase == "abcdefghijklmnopqrstuvwxyz"

\* The characters that occur in the model's strings, in code-point order.
CodePointOrder == " -/0123456789:=?ABCDEFGHIJKLMNOPQRSTUVWXYZ_abcdefghijklmnopqrstuvwxyz"

IndexIn(c, alphabet) ==
    IF \E k \in 1..Len(alphabet) : CharAt(alphabet, k) = c
    THEN CHOOSE k \in 1..Len(alphabet) : CharAt(alphabet, k) = c
    ELSE 0

\* The rank of a one-character string in code-point order (ord(c) up to a
\* monotone renumbering).
Ord(c) == IndexIn(c, CodePointOrder)

LowerChar(c) ==
    IF IndexIn(c, UpperCase) > 0 THEN CharAt(LowerCase, IndexIn(c, UpperCase)) ELSE c

\* str.lower()
RECURSIVE StrLower(_)
StrLower(s) ==
    IF Len(s) = 0 THEN ""
    ELSE LowerChar(CharAt(s, 1)) \o StrLower(SubSeq(s, 2, Len(s)))

\* `sub in s`
StrIn(sub, s) ==
    \E k \in 0..(Len(s) - Len(sub)) : SubSeq(s, k + 1, k + Len(sub)) = sub

\* Position of the first occurrence of the one-character sep in s, 0 if none.
FindChar(s, sep) ==
    IF \E k \in 1..Len(s) : CharAt(s, k) = sep
    THEN CHOOSE k \in 1..Len(s) :
            /\ CharAt(s, k) = sep
            /\ \A j \in 1..(k - 1) : CharAt(s, j) # sep
    ELSE 0

\* s.split(sep) for a one-character sep.
RECURSIVE StrSplit(_, _)
StrSplit(s, sep) ==
    IF FindChar(s, sep) = 0 THEN <<s>>
    ELSE <<SubSeq(s, 1, FindChar(s, sep) - 1)>>
            \o StrSplit(SubSeq(s, FindChar(s, sep) + 1, Len(s)), sep)

\* sep.join(parts)
RECURSIVE StrJoin(_, _)
StrJoin(sep, parts) ==
    IF Len(parts) = 0 THEN ""
    ELSE IF Len(parts) = 1 THEN parts[1]
    ELSE parts[1] \o sep \o StrJoin(sep, Tail(parts))

Digits == "0123456789"

\* str(n) of a non-negative int, as an f-string formats it.
RECURSIVE IntToStr(_)
IntToStr(n) ==
    IF n < 10 THEN CharAt(Digits, n + 1)
    ELSE IntToStr(n \div 10) \o CharAt(Digits, (n % 10) + 1)

\* a < b on str: lexicographic by code point.
RECURSIVE StrLess(_, _)
StrLess(a, b) ==
    IF Len(b) = 0 THEN FALSE
    ELSE IF Len(a) = 0 THEN TRUE
    ELSE IF CharAt(a, 1) # CharAt(b, 1) THEN Ord(CharAt(a, 1)) < Ord(CharAt(b, 1))
    ELSE StrLess(SubSeq(a, 2, Len(a)), SubSeq(b, 2, Len(b)))

(***************************************************************************)
(* Argument checks (lines 64-91).                                          *)
(***************************************************************************)
\* `if seqtype:` -- None and the empty string are falsy.
Truthy(v) == v # None /\ v # ""

id_types == <<"gene", "transcript">>
andors == <<"and", "or">>

\* `x in lst` for a list of strings.
InList(x, lst) == \E k \in 1..Len(lst) : lst[k] = x

(***************************************************************************)
(* Species normalisation (lines 93-105): the shortcuts, then the cut at    *)
(* the first "/", then lower().                                            *)
(***************************************************************************)
Shortcut(species) ==
    IF species = "human" THEN "homo_sapiens"
    ELSE IF species = "mouse" THEN "mus_musculus"
    ELSE species

CutAtSlash(species) ==
    IF StrIn("/", species) THEN StrSplit(species, "/")[1] ELSE species

NormalizeSpecies(species) == StrLower(CutAtSlash(Shortcut(species)))

(***************************************************************************)
(* Database resolution (lines 117-145).                                    *)
(***************************************************************************)
\* The list db built by the loop over databases: every name containing species.
RECURSIVE MatchingDatabases(_, _)
MatchingDatabases(species, databases) ==
    IF Len(databases) = 0 THEN <<>>
    ELSE (IF StrIn(species, Head(databases)) THEN <<Head(databases)>> ELSE <<>>)
            \o MatchingDatabases(species, Tail(databases))

CanonicalMouse(ens_rel) == "mus_musculus_core_" \o IntToStr(ens_rel) \o "_39"

AmbiguousError == "ValueError: Species matches more than one database."
NotFoundError == "ValueError: Species not found in database."

\* ResolveDatabase with the mouse branch taken for a single match too.
ResolveDatabase_MouseOnOneMatch(species, databases, ens_rel) ==
    LET found == MatchingDatabases(species, databases) IN
    IF Len(found) >= 1 /\ StrIn("mus_musculus", species)
    THEN [error |-> "", db |-> CanonicalMouse(ens_rel)]
    ELSE IF Len(found) > 1 /\ ~StrIn("mus_musculus", species)
    THEN [error |-> AmbiguousError, db |-> ""]
    ELSE IF Len(found) = 0
    THEN [error |-> NotFoundError, db |-> ""]
    ELSE [error |-> "", db |-> found[1]]

\* ResolveDatabase with the first match used for several mouse matches.
ResolveDatabase_MouseFirstMatch(species, databases, ens_rel) ==
    LET found == MatchingDatabases(species, databases) IN
    IF Len(found) > 1 /\ StrIn("mus_musculus", species)
    THEN [error |-> "", db |-> found[1]]
    ELSE IF Len(found) > 1 /\ ~StrIn("mus_musculus", species)
    THEN [error |-> AmbiguousError, db |-> ""]
    ELSE IF Len(found) = 0
    THEN [error |-> NotFoundError, db |-> ""]
    ELSE [error |-> "", db |-> found[1]]

\* ResolveDatabase with the first match used for several matches of any species.
ResolveDatabase_AmbiguousFirstMatch(species, databases, ens_rel) ==
    LET found == MatchingDatabases(species, databases) IN
    IF Len(found) > 1 /\ StrIn("mus_musculus", species)
    THEN [error |-> "", db |-> CanonicalMouse(ens_rel)]
    ELSE IF Len(found) = 0
    THEN [error |-> NotFoundError, db |-> ""]
    ELSE [error |-> "", db |-> found[1]]

\* The if/elif chain of lines 124-145: the database, or the error raised.
ResolveDatabase(species, databases, ens_rel) ==
    LET found == MatchingDatabases(species, databases) IN
    IF Len(found) > 1 /\ StrIn("mus_musculus", species)
    THEN [error |-> "", db |-> CanonicalMouse(ens_rel)]
    ELSE IF Len(found) > 1 /\ ~StrIn("mus_musculus", species)
    THEN [error |-> AmbiguousError, db |-> ""]
    ELSE IF Len(found) = 0
    THEN [error |-> NotFoundError, db |-> ""]
    ELSE [error |-> "", db |-> found[1]]

(***************************************************************************)
(* The query (lines 177-182 and 210-215).  A row is                        *)
(* <<ensembl_id, gene_name, ensembl_description, ext_ref_description,      *)
(* biotype>>.  LIKE '%word%' is a case-insensitive substring test that a   *)
(* NULL column never passes; the model's keywords hold no LIKE wildcard.   *)
(***************************************************************************)
Like(column, searchword) ==
    column # NULL /\ StrIn(StrLower(searchword), StrLower(column))

RowMatches(row, searchword) ==
    \/ Like(row[3], searchword)
    \/ Like(row[4], searchword)
    \/ Like(row[2], searchword)

\* The rows of the table the WHERE clause selects, in table order.
RECURSIVE SelectRows(_, _)
SelectRows(table, searchword) ==
    IF Len(table) = 0 THEN <<>>
    ELSE (IF RowMatches(Head(table), searchword) THEN <<Head(table)>> ELSE <<>>)
            \o SelectRows(Tail(table), searchword)

\* pd.read_sql: the selected rows in any order (the query has no ORDER BY).
Orderings(rows) ==
    { [k \in 1..Len(rows) |-> rows[p[k]]] :
        p \in { q \in [1..Len(rows) -> 1..Len(rows)] :
                    \A a, b \in 1..Len(rows) : a # b => q[a] # q[b] } }

(***************************************************************************)
(* Data-frame operations.  A frame is a sequence of rows.                  *)
(***************************************************************************)
\* Insert row into a frame sorted by ensembl_id, after the rows not greater.
RECURSIVE InsertById(_, _)
InsertById(sorted, row) ==
    IF Len(sorted) = 0 THEN <<row>>
    ELSE IF StrLess(row[1], Head(sorted)[1]) THEN <<row>> \o sorted
    ELSE <<Head(sorted)>> \o InsertById(Tail(sorted), row)

\* df.sort_values("ensembl_id").reset_index(drop=True): rows of equal
\* ensembl_id keep the order they came in (the insertion sort that the
\* default sort uses on frames of this size).
RECURSIVE SortValues(_)
SortValues(frame) ==
    IF Len(frame) = 0 THEN <<>>
    ELSE InsertById(SortValues(SubSeq(frame, 1, Len(frame) - 1)), frame[Len(frame)])

EnsemblIds(frame) == { frame[k][1] : k \in 1..Len(frame) }

\* np.intersect1d(df["ensembl_id"], df_temp["ensembl_id"]), as a set.
Intersect1d(frame, other) == EnsemblIds(frame) \cap EnsemblIds(other)

\* df[df.ensembl_id.isin(val)]
RECURSIVE IsinFilter(_, _)
IsinFilter(frame, val) ==
    IF Len(frame) = 0 THEN <<>>
    ELSE (IF Head(frame)[1] \in val THEN <<Head(frame)>> ELSE <<>>)
            \o IsinFilter(Tail(frame), val)

\* FoldOr with the new result replacing the old ones.
FoldOr_Replace(i, df, df_temp) == df_temp

\* Lines 190-197: or keeps every result.
FoldOr(i, df, df_temp) ==
    IF i = 0 THEN df_temp ELSE df \o df_temp

\* FoldAnd with the overlap taken from the new result's rows.
FoldAnd_NewRows(i, df, df_temp) ==
    IF i = 0 THEN df_temp ELSE IsinFilter(df_temp, Intersect1d(df, df_temp))

\* Lines 199-207: and keeps the rows of df whose id the new result has too.
FoldAnd(i, df, df_temp) ==
    IF i = 0 THEN df_temp ELSE IsinFilter(df, Intersect1d(df, df_temp))

Fold(andor, i, df, df_temp) ==
    IF andor = "or" THEN FoldOr(i, df, df_temp) ELSE FoldAnd(i, df, df_temp)

\* df.drop_duplicates().reset_index(drop=True): the first of equal rows stays.
RECURSIVE DropDuplicates(_)
DropDuplicates(frame) ==
    IF Len(frame) = 0 THEN <<>>
    ELSE LET init == DropDuplicates(SubSeq(frame, 1, Len(frame) - 1))
             last == frame[Len(frame)]
         IN IF \E k \in 1..Len(init) : init[k] = last THEN init
            ELSE Append(init, last)

\* DfHead keeping one row more.
DfHead_OneMore(frame, n) ==
    SubSeq(frame, 1, IF n + 1 < Len(frame) THEN n + 1 ELSE Len(frame))

\* df.head(n)
DfHead(frame, n) ==
    IF n >= 0 THEN SubSeq(frame, 1, IF n < Len(frame) THEN n ELSE Len(frame))
    ELSE SubSeq(frame, 1, IF Len(frame) + n > 0 THEN Len(frame) + n ELSE 0)

\* Lines 244-250.
ApplyLimit(frame, limit) ==
    IF limit.given THEN DfHead(frame, limit.n) ELSE frame

\* Lines 262-267.
Url(db, ensembl_id) ==
    "https://useast.ensembl.org/" \o StrJoin("_", SubSeq(StrSplit(db, "_"), 1, 2))
        \o "/Gene/Summary?g=" \o ensembl_id

AddUrl(frame, db) ==
    [k \in 1..Len(frame) |-> Append(frame[k], Url(db, frame[k][1]))]

\* The loop of lines 175-239 over the first n results read_sql returned.
RECURSIVE FoldAll(_, _, _)
FoldAll(mode, results, n) ==
    IF n = 0 THEN <<>>
    ELSE Fold(mode, n - 1, FoldAll(mode, results, n - 1), SortValues(results[n]))

\* Lines 241-267 with limit=None: the frame a call returns without a limit.
Unlimited(mode, results, database) ==
    AddUrl(DropDuplicates(FoldAll(mode, results, Len(results))), database)

(***************************************************************************)
(* The inputs of a call, and what the remote side may answer.              *)
(***************************************************************************)
SpeciesArgs ==
    { "human", "Human", "mouse", "MOUSE", "mus_musculus_dba2j",
      "Homo_Sapiens_core_106_38/", "oryza" }
IdTypeArgs == { "gene", "Transcript", "protein" }
AndorArgs == { "or", "AND", "xor" }
SeqtypeArgs == { None, "transcript" }
\* limit: None, or an int; [given |-> FALSE] stands for None.
LimitArgs ==
    { [given |-> FALSE, n |-> 0] } \cup { [given |-> TRUE, n |-> k] : k \in 1..MaxLimit }
Words == { "brca2", "repair", "GABA" }

\* searchwords: one string (held in value[1]), or a list of up to MaxWords
\* strings.
WordLists == UNION { [1..n -> Words] : n \in 0..MaxWords }
SearchwordsArgs ==
    { [type |-> "str", value |-> <<w>>] : w \in { "BRCA2" } }
        \cup { [type |-> "list", value |-> l] : l \in WordLists }

\* find_latest_ens_rel()
Releases == { 105, 106 }

\* gget_species_options(): the lists of the two registries.
Registries(rel) ==
    LET r == IntToStr(rel) IN
    { [ primary |-> << "danio_rerio_core_" \o r \o "_11",
                       "homo_sapiens_core_" \o r \o "_38",
                       "mus_musculus_129s1svimj_core_" \o r \o "_1",
                       "mus_musculus_core_" \o r \o "_39",
                       "mus_musculus_dba2j_core_" \o r \o "_1" >>,
        plant   |-> << "oryza_indica_core_" \o r \o "_2",
                       "oryza_sativa_core_" \o r \o "_7" >> ],
      [ primary |-> << "danio_rerio_core_" \o r \o "_11",
                       "mus_musculus_core_" \o r \o "_38" >>,
        plant   |-> << "oryza_sativa_core_" \o r \o "_7" >> ],
      [ primary |-> << "danio_rerio_core_" \o r \o "_11",
                       "mus_musculus_casteij_core_" \o r \o "_1",
                       "mus_musculus_wsbeij_core_" \o r \o "_1" >>,
        plant   |-> << >> ] }

\* The backing dataset: the gene and transcript tables joined with xref.
GeneRow1 == <<"ENSG02", "BRCA2", "dna repair", NULL, "protein_coding">>
GeneRow2 == <<"ENSG01", "BRCA1", "DNA repair", "brca1 gene", "protein_coding">>
GeneRow3 == <<"ENSG03", "GABRA1", "gaba receptor", NULL, "protein_coding">>
GeneRow4 == <<"ENSG02", "BRCA2P", "brca2 pseudogene", NULL, "pseudogene">>
TranscriptRow1 == <<"ENST02", "BRCA2-201", "dna repair", NULL, "protein_coding">>
TranscriptRow2 == <<"ENST01", "GABRA1-201", NULL, "gaba receptor", "retained_intron">>
TranscriptRow3 == <<"ENST02", "BRCA2-201", NULL, "Gaba", "protein_coding">>

Datasets ==
    { [ gene |-> <<GeneRow1, GeneRow2, GeneRow3>>,
        transcript |-> <<TranscriptRow1, TranscriptRow2>> ],
      [ gene |-> <<GeneRow1, GeneRow2, GeneRow3, GeneRow4>>,
        transcript |-> <<TranscriptRow1, TranscriptRow2, TranscriptRow3>> ] }

(***************************************************************************)
(* The state of one call of search().                                      *)
(***************************************************************************)
VARIABLES
    args,           \* the arguments as passed
    dataset,        \* the tables of the database server
    pc,             \* the position in search()
    id_type, andor, species, searchwords,   \* the locals search() reassigns
    ens_rel, databases, db,
    bound,          \* which of db_connection and df are bound
    i, df,          \* the keyword loop
    calls,          \* the remote calls made so far, in order
    responses,      \* what read_sql returned for each keyword so far
    error,          \* the exception or logged error the call ended with
    result          \* the frame returned

vars == <<args, dataset, pc, id_type, andor, species, searchwords, ens_rel,
          databases, db, bound, i, df, calls, responses, error, result>>

\* The calls the resolution claims are checked on: every species, id_type,
\* andor and seqtype, with a few searchwords.
ResolutionCalls ==
    [ searchwords : { [type |-> "str", value |-> <<"BRCA2">>],
                      [type |-> "list", value |-> <<>>],
                      [type |-> "list", value |-> <<"repair", "brca2">>] },
      species : SpeciesArgs, id_type : IdTypeArgs, seqtype : SeqtypeArgs,
      andor : AndorArgs, limit : LimitArgs ]

\* The calls the aggregation claims are checked on: every searchwords and
\* limit, with valid arguments and one species.
SearchCalls ==
    [ searchwords : SearchwordsArgs, species : { "human" },
      id_type : { "gene", "Transcript" }, seqtype : { None },
      andor : { "or", "AND" }, limit : LimitArgs ]

Start(a, d) ==
    /\ args = a
    /\ dataset = d
    /\ pc = "seqtype"
    /\ id_type = a.id_type
    /\ andor = a.andor
    /\ species = a.species
    /\ searchwords = a.searchwords
    /\ ens_rel = 0
    /\ databases = <<>>
    /\ db = ""
    /\ bound = {}
    /\ i = 0
    /\ df = <<>>
    /\ calls = <<>>
    /\ responses = <<>>
    /\ error = ""
    /\ result = <<>>

Init == \E a \in ResolutionCalls, d \in Datasets : Start(a, d)

InitSearch == \E a \in SearchCalls, d \in Datasets : Start(a, d)

\* Lines 64-69: the deprecated argument is logged and the call returns None.
CheckSeqtype ==
    /\ pc = "seqtype"
    /\ IF Truthy(args.seqtype)
       THEN /\ pc' = "return_none"
            /\ error' = "'seqtype' argument deprecated!"
       ELSE /\ pc' = "find_rel"
            /\ error' = error
    /\ UNCHANGED <<args, dataset, id_type, andor, species, searchwords, ens_rel,
                   databases, db, bound, i, df, calls, responses, result>>

\* Line 74.
FindLatestEnsRel ==
    /\ pc = "find_rel"
    /\ \E rel \in Releases : ens_rel' = rel
    /\ calls' = Append(calls, "find_latest_ens_rel")
    /\ pc' = "check_args"
    /\ UNCHANGED <<args, dataset, id_type, andor, species, searchwords,
                   databases, db, bound, i, df, responses, error, result>>

\* Lines 76-91.
CheckArguments ==
    /\ pc = "check_args"
    /\ id_type' = StrLower(id_type)
    /\ IF ~InList(StrLower(id_type), id_types)
       THEN /\ pc' = "raise"
            /\ error' = "ValueError: ID type (id_type)"
            /\ andor' = andor
       ELSE /\ andor' = StrLower(andor)
            /\ IF ~InList(StrLower(andor), andors)
               THEN pc' = "raise" /\ error' = "ValueError: 'andor' argument"
               ELSE pc' = "normalize" /\ error' = error
    /\ UNCHANGED <<args, dataset, species, searchwords, ens_rel, databases, db,
                   bound, i, df, calls, responses, result>>

\* Lines 93-105.
Normalize ==
    /\ pc = "normalize"
    /\ species' = NormalizeSpecies(species)
    /\ pc' = "fetch"
    /\ UNCHANGED <<args, dataset, id_type, andor, searchwords, ens_rel,
                   databases, db, bound, i, df, calls, responses, error, result>>

\* Lines 107-115.
FetchDatabases ==
    /\ pc = "fetch"
    /\ \E reg \in Registries(ens_rel) : databases' = reg.primary \o reg.plant
    /\ calls' = calls \o <<"gget_species_options", "gget_species_options">>
    /\ pc' = "resolve"
    /\ UNCHANGED <<args, dataset, id_type, andor, species, searchwords, ens_rel,
                   db, bound, i, df, responses, error, result>>

\* Lines 117-145.
Resolve ==
    /\ pc = "resolve"
    /\ LET r == ResolveDatabase(species, databases, ens_rel) IN
        /\ db' = r.db
        /\ error' = r.error
        /\ pc' = IF r.error = "" THEN "connect" ELSE "raise"
    /\ UNCHANGED <<args, dataset, id_type, andor, species, searchwords, ens_rel,
                   databases, bound, i, df, calls, responses, result>>

\* Lines 151-155: the first sql.connect.
Connect ==
    /\ pc = "connect"
    /\ \E ok \in BOOLEAN :
        IF ok
        THEN /\ calls' = Append(calls, "connect: ok")
             /\ bound' = bound \cup {"db_connection"}
             /\ pc' = "searchwords"
        ELSE /\ calls' = Append(calls, "connect: failed")
             /\ bound' = bound
             /\ pc' = "connect_port"
    /\ UNCHANGED <<args, dataset, id_type, andor, species, searchwords, ens_rel,
                   databases, db, i, df, responses, error, result>>

ServerError == "The Ensembl server returned the following error"

\* ConnectOtherPort with the second failure raised instead of logged.
ConnectOtherPort_Raises ==
    /\ pc = "connect_port"
    /\ \E ok \in BOOLEAN :
        IF ok
        THEN /\ calls' = Append(calls, "connect port=4157: ok")
             /\ bound' = bound \cup {"db_connection"}
             /\ error' = error
             /\ pc' = "searchwords"
        ELSE /\ calls' = Append(calls, "connect port=4157: failed")
             /\ bound' = bound
             /\ error' = ServerError
             /\ pc' = "raise"
    /\ UNCHANGED <<args, dataset, id_type, andor, species, searchwords, ens_rel,
                   databases, db, i, df, responses, result>>

\* Lines 156-167: the second sql.connect, on port 4157; its failure is logged
\* and the call goes on.
ConnectOtherPort ==
    /\ pc = "connect_port"
    /\ \E ok \in BOOLEAN :
        IF ok
        THEN /\ calls' = Append(calls, "connect port=4157: ok")
             /\ bound' = bound \cup {"db_connection"}
             /\ error' = error
        ELSE /\ calls' = Append(calls, "connect port=4157: failed")
             /\ bound' = bound
             /\ error' = ServerError
    /\ pc' = "searchwords"
    /\ UNCHANGED <<args, dataset, id_type, andor, species, searchwords, ens_rel,
                   databases, db, i, df, responses, result>>

\* Lines 169-172.
CleanSearchwords ==
    /\ pc = "searchwords"
    /\ searchwords' = [type |-> "list", value |-> searchwords.value]
    /\ pc' = "loop"
    /\ UNCHANGED <<args, dataset, id_type, andor, species, ens_rel, databases,
                   db, bound, i, df, calls, responses, error, result>>

\* Lines 175-239: one round of the loop.  Reading the unbound db_connection
\* raises before read_sql is called.
QueryKeyword ==
    /\ pc = "loop"
    /\ i < Len(searchwords.value)
    /\ IF "db_connection" \notin bound
       THEN /\ pc' = "raise"
            /\ error' = "UnboundLocalError: db_connection"
            /\ UNCHANGED <<i, df, bound, calls, responses>>
       ELSE /\ \E raw \in Orderings(SelectRows(dataset[id_type], searchwords.value[i + 1])) :
                /\ responses' = Append(responses, raw)
                /\ df' = Fold(andor, i, df, SortValues(raw))
            /\ calls' = Append(calls, "read_sql")
            /\ bound' = bound \cup {"df"}
            /\ i' = i + 1
            /\ UNCHANGED <<pc, error>>
    /\ UNCHANGED <<args, dataset, id_type, andor, species, searchwords, ens_rel,
                   databases, db, result>>

\* Lines 241-290: drop_duplicates, head(limit), the url column, and the
\* return of df.  With no keyword df was never bound.
Consolidate ==
    /\ pc = "loop"
    /\ i = Len(searchwords.value)
    /\ IF "df" \notin bound
       THEN /\ pc' = "raise"
            /\ error' = "UnboundLocalError: df"
            /\ UNCHANGED <<df, result>>
       ELSE /\ df' = AddUrl(ApplyLimit(DropDuplicates(df), args.limit), db)
            /\ result' = df'
            /\ pc' = "return_df"
            /\ error' = error
    /\ UNCHANGED <<args, dataset, id_type, andor, species, searchwords, ens_rel,
                   databases, db, bound, i, calls, responses>>

Next ==
    \/ CheckSeqtype
    \/ FindLatestEnsRel
    \/ CheckArguments
    \/ Normalize
    \/ FetchDatabases
    \/ Resolve
    \/ Connect
    \/ ConnectOtherPort
    \/ CleanSearchwords
    \/ QueryKeyword
    \/ Consolidate

Spec == Init /\ [][Next]_vars

SpecSearch == InitSearch /\ [][Next]_vars
(***************************************************************************)
(* Properties.                                                             *)
(***************************************************************************)
Ended == pc \in {"raise", "return_none", "return_df"}

InvalidArgumentErrors ==
    { "'seqtype' argument deprecated!", "ValueError: ID type (id_type)",
      "ValueError: 'andor' argument" }

Called(name) == \E k \in 1..Len(calls) : calls[k] = name

\* The positions of databases whose name contains the normalised species.
Matches == { k \in 1..Len(databases) : StrIn(species, databases[k]) }

\* Resolve has run on the fetched registry lists.
Resolved == databases # <<>> /\ pc # "resolve"

IsMouse == StrIn("mus_musculus", species)

InRegistry(name) == \E k \in 1..Len(databases) : databases[k] = name

\* The keywords of the call, as the loop sees them.
Keywords == args.searchwords.value

\* The table the queries of this call read.
Table == dataset[id_type]

\* The rows of a returned frame without their url.
Records(frame) == { SubSeq(frame[k], 1, 5) : k \in 1..Len(frame) }

RowSet(frame) == { frame[k] : k \in 1..Len(frame) }

\* C1: a call with an invalid argument (id_type, andor, seqtype) ends before
\* any remote call is made.
C1_InvalidArgumentBeforeRemoteCall ==
    (Ended /\ error \in InvalidArgumentErrors) => calls = <<>>

\* C2: when the normalised species is contained in exactly one name of the
\* combined registry list, resolution succeeds with that name, unchanged.
C2_UniqueMatchResolves ==
    (Resolved /\ Cardinality(Matches) = 1) =>
        /\ error \notin {AmbiguousError, NotFoundError}
        /\ \A k \in Matches : db = databases[k]

C2_Witness ==
    /\ pc = "connect"
    /\ Cardinality(Matches) = 1
    /\ Len(databases) > 1
    /\ \E k \in Matches : db = databases[k]

\* C3 as stated: for a species containing "mus_musculus", resolution always
\* gives mus_musculus_core_<release>_39, for every registry content and every
\* number of matches.
C3_MouseAlwaysCanonical ==
    (Resolved /\ IsMouse) =>
        /\ error \notin {AmbiguousError, NotFoundError}
        /\ db = CanonicalMouse(ens_rel)

\* C3 amended: for a species containing "mus_musculus" that matches two or
\* more registry names, resolution gives mus_musculus_core_<release>_39,
\* whatever the registry lists; with exactly one match it gives that registry
\* name, and with none it fails with species not found.
C3_MouseCanonicalOnMultipleMatches ==
    (Resolved /\ IsMouse) =>
        /\ Cardinality(Matches) >= 2 =>
            /\ error \notin {AmbiguousError, NotFoundError}
            /\ db = CanonicalMouse(ens_rel)
        /\ Cardinality(Matches) = 1 =>
            /\ error \notin {AmbiguousError, NotFoundError}
            /\ \A k \in Matches : db = databases[k]
        /\ Cardinality(Matches) = 0 =>
            /\ pc = "raise"
            /\ error = NotFoundError

C3_Witness ==
    /\ pc = "connect"
    /\ IsMouse
    /\ Cardinality(Matches) >= 2
    /\ db = CanonicalMouse(ens_rel)
    /\ ~InRegistry(db)

\* C4: for a species not containing "mus_musculus", no match fails with
\* species not found and two or more matches fail with the ambiguous-species
\* error; the call ends there, with no connection, no query and no result.
C4_OtherSpeciesFail ==
    (Resolved /\ ~IsMouse /\ Cardinality(Matches) # 1) =>
        /\ pc = "raise"
        /\ error = (IF Cardinality(Matches) = 0 THEN NotFoundError ELSE AmbiguousError)
        /\ db = ""
        /\ \A k \in 1..Len(calls) :
                calls[k] \in {"find_latest_ens_rel", "gget_species_options"}
        /\ bound = {}
        /\ result = <<>>

C4_Witness ==
    /\ pc = "raise"
    /\ ~IsMouse
    /\ Cardinality(Matches) >= 2
    /\ error = AmbiguousError

\* C5: with andor = "or" and no limit, the stable ids of the returned frame are
\* the union of the stable ids each keyword matches on its own.
C5_OrIsUnion ==
    (pc = "return_df" /\ andor = "or" /\ ~args.limit.given) =>
        EnsemblIds(result) =
            UNION { EnsemblIds(SelectRows(Table, Keywords[k])) : k \in 1..Len(Keywords) }

C5_Witness ==
    /\ pc = "return_df"
    /\ andor = "or"
    /\ ~args.limit.given
    /\ Len(Keywords) = 2
    /\ EnsemblIds(SelectRows(Table, Keywords[1])) \cap EnsemblIds(SelectRows(Table, Keywords[2])) # {}
    /\ ~(EnsemblIds(SelectRows(Table, Keywords[2])) \subseteq EnsemblIds(SelectRows(Table, Keywords[1])))
    /\ Len(result) < Len(responses[1]) + Len(responses[2])

\* C6: with andor = "and" and no limit, the stable ids of the returned frame
\* are the intersection of the stable ids each keyword matches on its own, and
\* every returned row is a row of the first keyword's result.
C6_AndIsIntersection ==
    (pc = "return_df" /\ andor = "and" /\ ~args.limit.given) =>
        /\ EnsemblIds(result) =
            { id \in EnsemblIds(SelectRows(Table, Keywords[1])) :
                \A k \in 1..Len(Keywords) : id \in EnsemblIds(SelectRows(Table, Keywords[k])) }
        /\ Records(result) \subseteq RowSet(SelectRows(Table, Keywords[1]))

C6_Witness ==
    /\ pc = "return_df"
    /\ andor = "and"
    /\ ~args.limit.given
    /\ Len(Keywords) = 2
    /\ result # <<>>
    /\ EnsemblIds(result) # EnsemblIds(SelectRows(Table, Keywords[1]))
    /\ \E r \in RowSet(SelectRows(Table, Keywords[2])) :
            /\ r[1] \in EnsemblIds(result)
            /\ r \notin RowSet(SelectRows(Table, Keywords[1]))

\* The results read_sql gives when it answers each query in table order.
TableOrderResults == [k \in 1..Len(Keywords) |-> SelectRows(Table, Keywords[k])]

\* C7: the frame before the limit is the same for every order in which
\* read_sql may return the rows of each query, also when two different rows
\* of a table have the same stable id.
C7_SameFrameForEveryRowOrder ==
    pc = "return_df" =>
        Unlimited(andor, responses, db) = Unlimited(andor, TableOrderResults, db)

Min(a, b) == IF a < b THEN a ELSE b

\* C8: with a limit L > 0 and T rows after drop_duplicates, the returned frame
\* has min(L, T) rows, no two of them equal, and is the prefix of the frame
\* the same run returns without a limit.
C8_LimitIsPrefix ==
    (pc = "return_df" /\ args.limit.given /\ args.limit.n > 0) =>
        LET full == Unlimited(andor, responses, db) IN
        /\ Len(result) = Min(args.limit.n, Len(full))
        /\ \A a, b \in 1..Len(result) : a # b => result[a] # result[b]
        /\ result = SubSeq(full, 1, Len(result))

C8_Witness ==
    /\ pc = "return_df"
    /\ args.limit.given
    /\ args.limit.n < Len(Unlimited(andor, responses, db))
    /\ Len(result) = args.limit.n
    /\ Len(FoldAll(andor, responses, Len(responses))) > Len(Unlimited(andor, responses, db))

\* The normalisation in the order C9 gives: lower-casing, the shortcuts, the
\* cut at the first "/".
LowerShortcutCut(token) == CutAtSlash(Shortcut(StrLower(token)))

\* C9: the species is normalised by lower-casing, then the shortcuts, then the
\* cut at the first "/", so a token whose lower-cased form is "human" or
\* "mouse" is matched against the registry as "homo_sapiens" or
\* "mus_musculus".
C9_LowerThenShortcut ==
    databases # <<>> =>
        /\ species = LowerShortcutCut(args.species)
        /\ StrLower(args.species) = "human" => species = "homo_sapiens"
        /\ StrLower(args.species) = "mouse" => species = "mus_musculus"

BothConnectsFailed == Called("connect port=4157: failed")

\* C10: the connection on the other port is tried only right after the first
\* connection failed, and once; when both fail the error is logged, not
\* raised, the call goes on to the keyword loop without a connection, and it
\* ends with the exception of the first query (no query was run) and never
\* returns a frame.
C10_ConnectFallback ==
    /\ \A k \in 1..Len(calls) :
            calls[k] \in {"connect port=4157: ok", "connect port=4157: failed"} =>
                /\ k > 1
                /\ calls[k - 1] = "connect: failed"
                /\ \A j \in 1..Len(calls) :
                        (j # k) => calls[j] \notin {"connect port=4157: ok",
                                                    "connect port=4157: failed"}
    /\ BothConnectsFailed =>
            /\ "db_connection" \notin bound
            /\ ~Called("read_sql")
            /\ pc \in {"searchwords", "loop", "raise"}
            /\ result = <<>>
            /\ pc \in {"searchwords", "loop"} => error = ServerError
            /\ (pc = "raise" /\ Len(Keywords) > 0) =>
                    error = "UnboundLocalError: db_connection" /\ i = 0
            /\ (pc = "raise" /\ Len(Keywords) = 0) =>
                    error = "UnboundLocalError: df"

C10_Witness ==
    /\ BothConnectsFailed
    /\ pc = "raise"
    /\ error = "UnboundLocalError: db_connection"
    /\ i = 0
    /\ Len(Keywords) > 0
====
